---- MODULE Spec2Model ----
(***************************************************************************)
(* State-machine model of src/src/media_process.h:                         *)
(*   - BaseMediaProcessThreadedPipe  (worker-pool pipe,       "tp_")       *)
(*   - BaseMediaProcessCachePipe     (watermark-buffered pipe, "cp_")      *)
(*   - BaseMediaProcessRunloop       (runloop driver,          "rl_")      *)
(*   - BaseMediaProcess              (composite wiring,        "co_")      *)
(* Every critical section guarded by a stage's mutex_ that contains no     *)
(* blocking call is one atomic step; a condition-variable wait splits the  *)
(* section in two (enter the wait set and release; leave it and re-lock).  *)
(* Reads of running_ made outside the mutex are separate steps.            *)
(***************************************************************************)
EXTENDS Integers, Naturals, Sequences, FiniteSets, TLC

(* ------------------------------ bounds -------------------------------- *)
\* input() calls made on a stage in one behaviour (each passes a fresh element)
MaxElems == 2
\* largest highLevel_ a watermark-buffered pipe is constructed with
MaxHigh == 2
\* start() calls on a runloop that spawn an execution unit
MaxStarts == 2
\* elements the sink of a runloop receives in one behaviour
MaxSink == 11

\* child stages handed to the constructor of one composite
MaxStages == 4

\* the worker units a pool may spawn (count_ is drawn from 1..Cardinality(Workers))
Workers == 1..2
\* the threads that call input() on a stage
Producers == 1..2
Elems == 1..MaxElems
\* the null shared_ptr
Null == 0
\* stages handed to the constructor as one level
Widths == 1..2
\* <<getInputCount(), getOutputCount()>> of a child stage: generator, pipe, join,
\* split, multiplex, collapsar
StageShapes == {<<0, 1>>, <<1, 1>>, <<2, 1>>, <<1, 2>>, <<2, 2>>, <<1, 0>>}
\* the external output handlers a caller may register on a composite
Handlers == {1}

(* ------------------------------ helpers ------------------------------- *)
SeqToSet(s) == {s[i] : i \in 1..Len(s)}
Occurrences(s, e) == Cardinality({i \in 1..Len(s) : s[i] = e})
SetMin(S) == CHOOSE x \in S : \A y \in S : x <= y

(* ------------------ state of the worker-pool pipe --------------------- *)
VARIABLES
    tp_count,          \* count_            : number of worker units
    tp_running,        \* running_
    tp_me,             \* me_               : the single-slot mailbox
    tp_stopGraceful,   \* stopGraceful_
    tp_threads,        \* threads_          : worker units not yet handed to wait()
    tp_postRunMutex,   \* postRunMutex_     : 0 or the worker holding it
    tp_meCondIn,       \* waiters of meCondIn_  (workers)
    tp_meCondOut,      \* waiters of meCondOut_ (producers)
    tp_hasOut0,        \* outputHandlers_.find(0) != end()
    tp_wpc,            \* worker  -> position in run_()
    tp_currMe,         \* worker  -> currMe
    tp_ppc,            \* producer -> position in input()
    tp_parg,           \* producer -> mediaElement argument of the current call
    tp_cpc,            \* owner thread: position in start/stop/wait/reset
    tp_ts,             \* owner thread: local vector ts of wait()
    tp_started,        \* history: start() has been called
    tp_nProd,          \* number of producer threads in this behaviour
    tp_nextElem,       \* next fresh element
    tp_inq,            \* history: elements in the order input() enqueued them
    tp_outq,           \* history: elements in the order handed to outputHandlers_[0]
    tp_returned,       \* history: elements whose input() call has returned
    tp_stopped         \* history: stop() was called since the last start()

tpVars == <<tp_count, tp_running, tp_me, tp_stopGraceful, tp_threads, tp_postRunMutex,
            tp_meCondIn, tp_meCondOut, tp_hasOut0, tp_wpc, tp_currMe, tp_ppc, tp_parg,
            tp_cpc, tp_ts, tp_started, tp_nProd, tp_nextElem, tp_inq, tp_outq, tp_returned,
            tp_stopped>>

(* --------------- state of the watermark-buffered pipe ----------------- *)
VARIABLES
    cp_lowLevel,       \* lowLevel_
    cp_highLevel,      \* highLevel_
    cp_running,        \* running_
    cp_stopGraceful,   \* stopGraceful_
    cp_cache,          \* cache_ : std::set ordered by element address
    cp_mutex,          \* mutex_ is held across steps (by the final pass of run_)
    cp_enterLow,       \* waiters of enterLowCond_ (producers)
    cp_hasOut0,        \* outputHandlers_.find(0) != end()
    cp_overrides,      \* a subclass overrides dealHighLevel()
    cp_dpc,            \* drain unit: position in run_()
    cp_me,             \* drain unit: local me
    cp_it,             \* drain unit: elements the final pass has still to visit
    cp_joinable,       \* proc_.joinable()
    cp_ppc,            \* producer -> position in input()
    cp_parg,           \* producer -> mediaElement argument of the current call
    cp_cpc,            \* owner thread: position in start/stop/wait/reset
    cp_used,           \* elements already passed to input()
    cp_ins,            \* history: elements input() inserted into cache_
    cp_outq,           \* history: elements in the order handed to outputHandlers_[0]
    cp_started,        \* history: start() has been called
    cp_stopped         \* history: "no", or the graceful flag of the stop() since the last start()

cpVars == <<cp_lowLevel, cp_highLevel, cp_running, cp_stopGraceful, cp_cache, cp_mutex,
            cp_enterLow, cp_hasOut0, cp_overrides, cp_dpc, cp_me, cp_it, cp_joinable,
            cp_ppc, cp_parg, cp_cpc, cp_used, cp_ins, cp_outq, cp_started, cp_stopped>>

(* ---------------------- state of the runloop -------------------------- *)
VARIABLES
    rl_running,        \* running_
    rl_proc,           \* proc_ : 0 (not joinable) or the unit it holds
    rl_upc,            \* unit -> position in run()
    rl_count,          \* MPProductor::count_ (a negative value stands for its
                       \* residue modulo the width of size_t)
    rl_count0,         \* the value count_ was constructed with
    rl_sink,           \* the "count" metadata of the elements MPShow::input received
    rl_cpc,            \* owner thread: position in start/stop
    rl_spawned,        \* units spawned so far
    rl_aborted,        \* std::terminate was called
    rl_runs,           \* history: run() invocations (direct or through start())
    rl_stopCalled,     \* history: stop() has been called
    rl_stopRet         \* history: stop() has returned since the last start() call

rlVars == <<rl_running, rl_proc, rl_upc, rl_count, rl_count0, rl_sink, rl_cpc,
            rl_spawned, rl_aborted, rl_runs, rl_stopCalled, rl_stopRet>>

(* ---------------------- state of the composite ------------------------ *)
\* a child stage is named <<k, i>>: the i-th stage (from 1) of level k (from 0)
VARIABLES
    co_levels,         \* the constructor arguments: per level, the shapes of its stages
    co_single0,        \* level 0 was passed as one stage, not as a vector
    co_pc,             \* "unused", "init" (constructor running), "built", "failed"
    co_level,          \* level : the level the next init() call handles
    co_mps,            \* mps_
    co_mpsPrev,        \* mpsPrev_
    co_prevOutputCount,\* prevOutputCount_
    co_inputCount,     \* inputCount_
    co_outputCount,    \* outputCount_
    co_inputHandlers,  \* inputHandlers_ : index i is kept at position i + 1
    co_childOut,       \* the output handlers set on the children: port -> target
    co_generator,      \* generator_ is set
    co_outputHandlers, \* outputHandlers_ of the composite: index -> handler or Null
    co_last,           \* the last delivery: [op, index or (mp, i), to] ; op "none" at first
    co_intrLog         \* the children interrupt() was called on by the last interrupt()

coVars == <<co_levels, co_single0, co_pc, co_level, co_mps, co_mpsPrev,
            co_prevOutputCount, co_inputCount, co_outputCount, co_inputHandlers,
            co_childOut, co_generator, co_outputHandlers, co_last, co_intrLog>>

vars == <<tpVars, cpVars, rlVars, coVars>>

\* a step of one stage leaves the other stages alone
TP_Others == UNCHANGED <<cpVars, rlVars, coVars>>
CP_Others == UNCHANGED <<tpVars, rlVars, coVars>>
RL_Others == UNCHANGED <<tpVars, cpVars, coVars>>
CO_Others == UNCHANGED <<tpVars, cpVars, rlVars>>

(***************************************************************************)
(*                 BaseMediaProcessThreadedPipe  (tp_)                     *)
(***************************************************************************)
TP_Init ==
    /\ tp_count \in 1..Cardinality(Workers)
    /\ tp_running = FALSE
    /\ tp_me = Null
    /\ tp_stopGraceful = TRUE
    /\ tp_threads = {}
    /\ tp_postRunMutex = 0
    /\ tp_meCondIn = {}
    /\ tp_meCondOut = {}
    /\ tp_hasOut0 \in BOOLEAN
    /\ tp_wpc = [w \in Workers |-> "none"]
    /\ tp_currMe = [w \in Workers |-> Null]
    /\ tp_ppc = [p \in Producers |-> "idle"]
    /\ tp_parg = [p \in Producers |-> Null]
    /\ tp_cpc = "idle"
    /\ tp_ts = {}
    /\ tp_started = FALSE
    /\ tp_nProd \in 1..Cardinality(Producers)
    /\ tp_nextElem = 1
    /\ tp_inq = <<>>
    /\ tp_outq = <<>>
    /\ tp_returned = {}
    /\ tp_stopped = FALSE

\* the stage is not used at all (specifications of the other stages)
TP_Idle ==
    /\ tp_count = 1
    /\ tp_running = FALSE
    /\ tp_me = Null
    /\ tp_stopGraceful = TRUE
    /\ tp_threads = {}
    /\ tp_postRunMutex = 0
    /\ tp_meCondIn = {}
    /\ tp_meCondOut = {}
    /\ tp_hasOut0 = FALSE
    /\ tp_wpc = [w \in Workers |-> "none"]
    /\ tp_currMe = [w \in Workers |-> Null]
    /\ tp_ppc = [p \in Producers |-> "idle"]
    /\ tp_parg = [p \in Producers |-> Null]
    /\ tp_cpc = "idle"
    /\ tp_ts = {}
    /\ tp_started = FALSE
    /\ tp_nProd = 1
    /\ tp_nextElem = 1
    /\ tp_inq = <<>>
    /\ tp_outq = <<>>
    /\ tp_returned = {}
    /\ tp_stopped = FALSE

\* condition_variable::notify_one: the wait sets it may leave behind
NotifyOne(waiters) == IF waiters = {} THEN {{}} ELSE {waiters \ {t} : t \in waiters}

\* outputHandlers_[0](e), guarded by outputHandlers_.find(0) != end()
TP_Emit(e) == IF tp_hasOut0 THEN Append(tp_outq, e) ELSE tp_outq

(* ------------------------------ input() ------------------------------- *)
\* an input() that does not look at the mailbox
TP_CanEnqueue_Unchecked == tp_running

\* line 414: the mailbox is written only when this holds
TP_CanEnqueue == (tp_me = Null) /\ tp_running

\* an input() that forgets to notify the workers
TP_NotifyIn_Forgotten == {tp_meCondIn}

\* line 416: meCondIn_.notify_one()
TP_NotifyIn == NotifyOne(tp_meCondIn)

\* a producer thread calls input(0, e) with a fresh element e
TP_input_call(p) ==
    /\ p <= tp_nProd
    /\ tp_ppc[p] = "idle"
    /\ tp_nextElem <= MaxElems
    /\ tp_ppc' = [tp_ppc EXCEPT ![p] = "locked"]
    /\ tp_parg' = [tp_parg EXCEPT ![p] = tp_nextElem]
    /\ tp_nextElem' = tp_nextElem + 1
    /\ UNCHANGED <<tp_count, tp_running, tp_me, tp_stopGraceful, tp_threads,
                   tp_postRunMutex, tp_meCondIn, tp_meCondOut, tp_hasOut0, tp_wpc,
                   tp_currMe, tp_cpc, tp_ts, tp_started, tp_nProd, tp_inq, tp_outq,
                   tp_returned, tp_stopped>>
    /\ TP_Others

\* lines 408-420 with mutex_ held: from taking the lock (or leaving
\* meCondOut_.wait) to the return or the next meCondOut_.wait
TP_input_body(p) ==
    /\ tp_ppc[p] = "locked" \/ (tp_ppc[p] = "waitOut" /\ p \notin tp_meCondOut)
    /\ IF ~tp_running
         THEN \* while (running_) fails: return without enqueuing
              /\ tp_ppc' = [tp_ppc EXCEPT ![p] = "idle"]
              /\ tp_returned' = tp_returned \cup {tp_parg[p]}
              /\ UNCHANGED <<tp_me, tp_meCondIn, tp_meCondOut, tp_inq>>
         ELSE IF TP_CanEnqueue
         THEN \* me_ = mediaElement; meCondIn_.notify_one(); return
              /\ tp_me' = tp_parg[p]
              /\ tp_meCondIn' \in TP_NotifyIn
              /\ tp_inq' = Append(tp_inq, tp_parg[p])
              /\ tp_ppc' = [tp_ppc EXCEPT ![p] = "idle"]
              /\ tp_returned' = tp_returned \cup {tp_parg[p]}
              /\ UNCHANGED tp_meCondOut
         ELSE \* if (me_) meCondOut_.wait(lock)
              /\ tp_ppc' = [tp_ppc EXCEPT ![p] = "waitOut"]
              /\ tp_meCondOut' = tp_meCondOut \cup {p}
              /\ UNCHANGED <<tp_me, tp_meCondIn, tp_inq, tp_returned>>
    /\ UNCHANGED <<tp_count, tp_running, tp_stopGraceful, tp_threads, tp_postRunMutex,
                   tp_hasOut0, tp_wpc, tp_currMe, tp_parg, tp_cpc, tp_ts, tp_started,
                   tp_nProd, tp_nextElem, tp_outq, tp_stopped>>
    /\ TP_Others

\* a spurious wake-up of meCondOut_.wait
TP_input_spurious(p) ==
    /\ p \in tp_meCondOut
    /\ tp_meCondOut' = tp_meCondOut \ {p}
    /\ UNCHANGED <<tp_count, tp_running, tp_me, tp_stopGraceful, tp_threads,
                   tp_postRunMutex, tp_meCondIn, tp_hasOut0, tp_wpc, tp_currMe, tp_ppc,
                   tp_parg, tp_cpc, tp_ts, tp_started, tp_nProd, tp_nextElem, tp_inq,
                   tp_outq, tp_returned, tp_stopped>>
    /\ TP_Others

(* ------------------------------- run_() ------------------------------- *)
\* currMe = me_ (a copy instead of the swap) leaves the element in the mailbox
TP_MailboxAfterCopy == tp_me

\* line 483: me_.swap(currMe) with currMe == nullptr leaves the mailbox empty
TP_MailboxAfterSwap == Null

\* lines 482-485 with mutex_ held
TP_run_take(w) ==
    IF tp_running /\ tp_me # Null
      THEN /\ tp_currMe' = [tp_currMe EXCEPT ![w] = tp_me]
           /\ tp_me' = TP_MailboxAfterSwap
           /\ tp_meCondOut' \in NotifyOne(tp_meCondOut)
      ELSE UNCHANGED <<tp_currMe, tp_me, tp_meCondOut>>

\* line 473: while (running_), read without the mutex; currMe(nullptr)
TP_run_loop(w) ==
    /\ tp_wpc[w] = "loop"
    /\ tp_wpc' = [tp_wpc EXCEPT ![w] = IF tp_running THEN "lock" ELSE "final"]
    /\ tp_currMe' = [tp_currMe EXCEPT ![w] = Null]
    /\ UNCHANGED <<tp_count, tp_running, tp_me, tp_stopGraceful, tp_threads,
                   tp_postRunMutex, tp_meCondIn, tp_meCondOut, tp_hasOut0, tp_ppc,
                   tp_parg, tp_cpc, tp_ts, tp_started, tp_nProd, tp_nextElem, tp_inq,
                   tp_outq, tp_returned, tp_stopped>>
    /\ TP_Others

\* lines 477-486: lock mutex_; if (!me_) meCondIn_.wait(lock); else take
TP_run_lock(w) ==
    /\ tp_wpc[w] = "lock"
    /\ IF tp_me = Null
         THEN /\ tp_meCondIn' = tp_meCondIn \cup {w}
              /\ tp_wpc' = [tp_wpc EXCEPT ![w] = "waitIn"]
              /\ UNCHANGED <<tp_currMe, tp_me, tp_meCondOut>>
         ELSE /\ TP_run_take(w)
              /\ tp_wpc' = [tp_wpc EXCEPT ![w] = "post"]
              /\ UNCHANGED tp_meCondIn
    /\ UNCHANGED <<tp_count, tp_running, tp_stopGraceful, tp_threads, tp_postRunMutex,
                   tp_hasOut0, tp_ppc, tp_parg, tp_cpc, tp_ts, tp_started, tp_nProd,
                   tp_nextElem, tp_inq, tp_outq, tp_returned, tp_stopped>>
    /\ TP_Others

\* lines 479-486: meCondIn_.wait returns (notified or spuriously woken, mutex_
\* re-locked); if (running_ && me_) take
TP_run_woken(w) ==
    /\ tp_wpc[w] = "waitIn"
    /\ w \notin tp_meCondIn
    /\ TP_run_take(w)
    /\ tp_wpc' = [tp_wpc EXCEPT ![w] = "post"]
    /\ UNCHANGED <<tp_count, tp_running, tp_stopGraceful, tp_threads, tp_postRunMutex,
                   tp_meCondIn, tp_hasOut0, tp_ppc, tp_parg, tp_cpc, tp_ts, tp_started,
                   tp_nProd, tp_nextElem, tp_inq, tp_outq, tp_returned, tp_stopped>>
    /\ TP_Others

\* a spurious wake-up of meCondIn_.wait
TP_run_spurious(w) ==
    /\ w \in tp_meCondIn
    /\ tp_meCondIn' = tp_meCondIn \ {w}
    /\ UNCHANGED <<tp_count, tp_running, tp_me, tp_stopGraceful, tp_threads,
                   tp_postRunMutex, tp_meCondOut, tp_hasOut0, tp_wpc, tp_currMe, tp_ppc,
                   tp_parg, tp_cpc, tp_ts, tp_started, tp_nProd, tp_nextElem, tp_inq,
                   tp_outq, tp_returned, tp_stopped>>
    /\ TP_Others

\* lines 489-490: if (running_ && currMe) process(currMe), running_ read without
\* the mutex; process() returns normally
TP_run_process(w) ==
    /\ tp_wpc[w] = "post"
    /\ tp_wpc' = [tp_wpc EXCEPT ![w] =
                     IF tp_running /\ tp_currMe[w] # Null THEN "postLock" ELSE "loop"]
    /\ UNCHANGED <<tp_count, tp_running, tp_me, tp_stopGraceful, tp_threads,
                   tp_postRunMutex, tp_meCondIn, tp_meCondOut, tp_hasOut0, tp_currMe,
                   tp_ppc, tp_parg, tp_cpc, tp_ts, tp_started, tp_nProd, tp_nextElem,
                   tp_inq, tp_outq, tp_returned, tp_stopped>>
    /\ TP_Others

\* a postRunMutex_ that excludes nobody
TP_PostRunMutexFree_Always == TRUE

\* lines 493, 503: std::unique_lock<std::mutex> lock(postRunMutex_) can be taken
TP_PostRunMutexFree == tp_postRunMutex = 0

\* lines 493-497: lock postRunMutex_; if (running_) the output handler is entered
TP_run_postLock(w) ==
    /\ tp_wpc[w] = "postLock"
    /\ TP_PostRunMutexFree
    /\ IF tp_running
         THEN /\ tp_outq' = TP_Emit(tp_currMe[w])
              /\ tp_postRunMutex' = w
              /\ tp_wpc' = [tp_wpc EXCEPT ![w] = "emit"]
         ELSE /\ tp_wpc' = [tp_wpc EXCEPT ![w] = "loop"]
              /\ UNCHANGED <<tp_outq, tp_postRunMutex>>
    /\ UNCHANGED <<tp_count, tp_running, tp_me, tp_stopGraceful, tp_threads,
                   tp_meCondIn, tp_meCondOut, tp_hasOut0, tp_currMe, tp_ppc, tp_parg,
                   tp_cpc, tp_ts, tp_started, tp_nProd, tp_nextElem, tp_inq, tp_returned,
                   tp_stopped>>
    /\ TP_Others

\* lines 496-499: the output handler returns; postRunMutex_ is released
TP_run_emitted(w) ==
    /\ tp_wpc[w] = "emit"
    /\ tp_postRunMutex' = 0
    /\ tp_wpc' = [tp_wpc EXCEPT ![w] = "loop"]
    /\ UNCHANGED <<tp_count, tp_running, tp_me, tp_stopGraceful, tp_threads,
                   tp_meCondIn, tp_meCondOut, tp_hasOut0, tp_currMe, tp_ppc, tp_parg,
                   tp_cpc, tp_ts, tp_started, tp_nProd, tp_nextElem, tp_inq, tp_outq,
                   tp_returned, tp_stopped>>
    /\ TP_Others

\* lines 503-507: lock postRunMutex_; if (stopGraceful_ && me_) the output handler
\* is entered with me_ (the mailbox is read without mutex_)
TP_run_final(w) ==
    /\ tp_wpc[w] = "final"
    /\ TP_PostRunMutexFree
    /\ IF tp_stopGraceful /\ tp_me # Null
         THEN /\ tp_outq' = TP_Emit(tp_me)
              /\ tp_postRunMutex' = w
              /\ tp_wpc' = [tp_wpc EXCEPT ![w] = "finalEmit"]
         ELSE /\ tp_wpc' = [tp_wpc EXCEPT ![w] = "done"]
              /\ UNCHANGED <<tp_outq, tp_postRunMutex>>
    /\ UNCHANGED <<tp_count, tp_running, tp_me, tp_stopGraceful, tp_threads,
                   tp_meCondIn, tp_meCondOut, tp_hasOut0, tp_currMe, tp_ppc, tp_parg,
                   tp_cpc, tp_ts, tp_started, tp_nProd, tp_nextElem, tp_inq, tp_returned,
                   tp_stopped>>
    /\ TP_Others

\* lines 507-512: the handler returns; me_ = nullptr; postRunMutex_ is released
TP_run_finalEmitted(w) ==
    /\ tp_wpc[w] = "finalEmit"
    /\ tp_me' = Null
    /\ tp_postRunMutex' = 0
    /\ tp_wpc' = [tp_wpc EXCEPT ![w] = "done"]
    /\ UNCHANGED <<tp_count, tp_running, tp_stopGraceful, tp_threads, tp_meCondIn,
                   tp_meCondOut, tp_hasOut0, tp_currMe, tp_ppc, tp_parg, tp_cpc, tp_ts,
                   tp_started, tp_nProd, tp_nextElem, tp_inq, tp_outq, tp_returned,
                   tp_stopped>>
    /\ TP_Others

(* -------------------- start / stop / wait / reset --------------------- *)
\* the owner thread is between two calls ("intr": it last returned from interrupt())
TP_OwnerIdle == tp_cpc \in {"idle", "intr"}

\* lines 436-441: the body of stop(graceful); every waiter is woken
TP_stop_effect(graceful) ==
    /\ tp_stopGraceful' = graceful
    /\ tp_running' = FALSE
    /\ tp_meCondOut' = {}
    /\ tp_meCondIn' = {}

\* stop(graceful) called by the owner
TP_stop(graceful) ==
    /\ TP_OwnerIdle
    /\ tp_cpc' = "idle"
    /\ TP_stop_effect(graceful)
    /\ tp_stopped' = TRUE
    /\ UNCHANGED <<tp_count, tp_me, tp_threads, tp_postRunMutex, tp_hasOut0, tp_wpc,
                   tp_currMe, tp_ppc, tp_parg, tp_ts, tp_started, tp_nProd, tp_nextElem,
                   tp_inq, tp_outq, tp_returned>>
    /\ TP_Others

\* lines 444-449: wait() called by the owner: ts.swap(threads_)
TP_wait ==
    /\ TP_OwnerIdle
    /\ tp_ts' = tp_threads
    /\ tp_threads' = {}
    /\ tp_cpc' = "wait_join"
    /\ UNCHANGED <<tp_count, tp_running, tp_me, tp_stopGraceful, tp_postRunMutex,
                   tp_meCondIn, tp_meCondOut, tp_hasOut0, tp_wpc, tp_currMe, tp_ppc,
                   tp_parg, tp_started, tp_nProd, tp_nextElem, tp_inq, tp_outq, tp_returned,
                   tp_stopped>>
    /\ TP_Others

\* lines 451-458: t->join() on the next unit of ts, which has terminated
TP_join ==
    /\ tp_cpc \in {"wait_join", "reset_join"}
    /\ tp_ts # {}
    /\ tp_wpc[SetMin(tp_ts)] = "done"
    /\ tp_ts' = tp_ts \ {SetMin(tp_ts)}
    /\ UNCHANGED <<tp_count, tp_running, tp_me, tp_stopGraceful, tp_threads,
                   tp_postRunMutex, tp_meCondIn, tp_meCondOut, tp_hasOut0, tp_wpc,
                   tp_currMe, tp_ppc, tp_parg, tp_cpc, tp_started, tp_nProd, tp_nextElem,
                   tp_inq, tp_outq, tp_returned, tp_stopped>>
    /\ TP_Others

\* line 459: wait() returns to the owner
TP_wait_return ==
    /\ tp_cpc = "wait_join"
    /\ tp_ts = {}
    /\ tp_cpc' = "idle"
    /\ UNCHANGED <<tp_count, tp_running, tp_me, tp_stopGraceful, tp_threads,
                   tp_postRunMutex, tp_meCondIn, tp_meCondOut, tp_hasOut0, tp_wpc,
                   tp_currMe, tp_ppc, tp_parg, tp_ts, tp_started, tp_nProd, tp_nextElem,
                   tp_inq, tp_outq, tp_returned, tp_stopped>>
    /\ TP_Others

\* lines 426-427, 461-462: start() enters reset(), which calls stop(true)
TP_start ==
    /\ TP_OwnerIdle
    /\ TP_stop_effect(TRUE)
    /\ tp_cpc' = "reset_wait"
    /\ tp_started' = TRUE
    /\ UNCHANGED <<tp_count, tp_me, tp_threads, tp_postRunMutex, tp_hasOut0, tp_wpc,
                   tp_currMe, tp_ppc, tp_parg, tp_ts, tp_nProd, tp_nextElem, tp_inq,
                   tp_outq, tp_returned, tp_stopped>>
    /\ TP_Others

\* lines 463, 444-449: reset() calls wait(): ts.swap(threads_)
TP_reset_wait ==
    /\ tp_cpc = "reset_wait"
    /\ tp_ts' = tp_threads
    /\ tp_threads' = {}
    /\ tp_cpc' = "reset_join"
    /\ UNCHANGED <<tp_count, tp_running, tp_me, tp_stopGraceful, tp_postRunMutex,
                   tp_meCondIn, tp_meCondOut, tp_hasOut0, tp_wpc, tp_currMe, tp_ppc,
                   tp_parg, tp_started, tp_nProd, tp_nextElem, tp_inq, tp_outq, tp_returned,
                   tp_stopped>>
    /\ TP_Others

\* lines 465-468: wait() has returned; me_ = nullptr; meCondOut_.notify_one()
TP_reset_clear ==
    /\ tp_cpc = "reset_join"
    /\ tp_ts = {}
    /\ tp_me' = Null
    /\ tp_meCondOut' \in NotifyOne(tp_meCondOut)
    /\ tp_cpc' = "start_spawn"
    /\ UNCHANGED <<tp_count, tp_running, tp_stopGraceful, tp_threads, tp_postRunMutex,
                   tp_meCondIn, tp_hasOut0, tp_wpc, tp_currMe, tp_ppc, tp_parg, tp_ts,
                   tp_started, tp_nProd, tp_nextElem, tp_inq, tp_outq, tp_returned,
                   tp_stopped>>
    /\ TP_Others

\* lines 428-432: running_ = true; count_ worker units are spawned
TP_start_spawn ==
    /\ tp_cpc = "start_spawn"
    /\ tp_running' = TRUE
    /\ tp_threads' = tp_threads \cup (1..tp_count)
    /\ tp_wpc' = [w \in Workers |-> IF w <= tp_count THEN "loop" ELSE tp_wpc[w]]
    /\ tp_currMe' = [w \in Workers |-> IF w <= tp_count THEN Null ELSE tp_currMe[w]]
    /\ tp_stopped' = FALSE
    /\ tp_cpc' = "idle"
    /\ UNCHANGED <<tp_count, tp_me, tp_stopGraceful, tp_postRunMutex, tp_meCondIn,
                   tp_meCondOut, tp_hasOut0, tp_ppc, tp_parg, tp_ts, tp_started, tp_nProd,
                   tp_nextElem, tp_inq, tp_outq, tp_returned>>
    /\ TP_Others

\* lines 86-94: interrupt(), inherited from BaseMediaProcess: the stage owns no
\* child (mps_ is empty), so the loop body never runs
TP_interrupt ==
    /\ TP_OwnerIdle
    /\ tp_cpc' = "intr"
    /\ UNCHANGED <<tp_count, tp_running, tp_me, tp_stopGraceful, tp_threads,
                   tp_postRunMutex, tp_meCondIn, tp_meCondOut, tp_hasOut0, tp_wpc,
                   tp_currMe, tp_ppc, tp_parg, tp_ts, tp_started, tp_nProd, tp_nextElem,
                   tp_inq, tp_outq, tp_returned, tp_stopped>>
    /\ TP_Others

(* ---------------------------- scheduling ------------------------------ *)
\* lines 473-500: the loop of run_()
TP_WorkerLoop(w) ==
    \/ TP_run_loop(w)
    \/ TP_run_lock(w)
    \/ TP_run_woken(w)
    \/ TP_run_process(w)
    \/ TP_run_postLock(w)
    \/ TP_run_emitted(w)

TP_Worker(w) ==
    \/ TP_WorkerLoop(w)
    \/ TP_run_final(w)
    \/ TP_run_finalEmitted(w)

TP_OwnerStep ==
    \/ TP_join
    \/ TP_wait_return
    \/ TP_reset_wait
    \/ TP_reset_clear
    \/ TP_start_spawn

TP_Spurious ==
    \/ \E w \in Workers : TP_run_spurious(w)
    \/ \E p \in Producers : TP_input_spurious(p)

\* the whole life cycle: the owner starts, stops, waits and interrupts at will
TP_Next ==
    \/ TP_start
    \/ \E g \in BOOLEAN : TP_stop(g)
    \/ TP_wait
    \/ TP_interrupt
    \/ TP_OwnerStep
    \/ \E p \in Producers : TP_input_call(p)
    \/ \E p \in Producers : TP_input_body(p)
    \/ \E w \in Workers : TP_Worker(w)
    \/ TP_Spurious

\* started once and never stopped; input() is called on the started stage
TP_RunNext ==
    \/ (~tp_started /\ TP_start)
    \/ TP_reset_wait
    \/ TP_reset_clear
    \/ TP_start_spawn
    \/ (tp_started /\ tp_cpc = "idle" /\ \E p \in Producers : TP_input_call(p))
    \/ \E p \in Producers : TP_input_body(p)
    \/ \E w \in Workers : TP_WorkerLoop(w)
    \/ TP_Spurious


(***************************************************************************)
(*                  Properties of the worker-pool pipe                     *)
(***************************************************************************)
\* position of element e in sequence s
Pos(s, e) == CHOOSE i \in 1..Len(s) : s[i] = e

\* every worker unit of the pool has terminated (or was never spawned)
TP_AllWorkersDone == \A w \in Workers : tp_wpc[w] \in {"none", "done"}

\* C1: started and never stopped, process() returning, a handler on port 0: no
\* element is handed to the port-0 handler twice, only enqueued elements are
\* handed to it, and every element whose input() call returned is eventually
\* handed to it (so exactly once), whatever the interleaving.
C1_EveryInputEmittedOnce ==
    /\ [](tp_hasOut0 =>
            /\ \A e \in Elems : Occurrences(tp_outq, e) <= 1
            /\ SeqToSet(tp_outq) \subseteq SeqToSet(tp_inq))
    /\ \A e \in Elems :
          (tp_hasOut0 /\ e \in tp_returned) ~> (Occurrences(tp_outq, e) = 1)

\* C1 witness: a two-worker pool fed by two producers has emitted every element
C1_Witness ==
    /\ tp_hasOut0 /\ tp_count = 2 /\ tp_nProd = 2
    /\ tp_returned = Elems
    /\ \A e \in Elems : Occurrences(tp_outq, e) = 1

\* C2: pool size 1 fed by one producer: the elements handed to the port-0 handler
\* are distinct enqueued elements, in the order input() enqueued them.
C2_SingleWorkerKeepsOrder ==
    (tp_count = 1 /\ tp_nProd = 1) =>
        /\ SeqToSet(tp_outq) \subseteq SeqToSet(tp_inq)
        /\ \A i, j \in 1..Len(tp_outq) :
              i < j => Pos(tp_inq, tp_outq[i]) < Pos(tp_inq, tp_outq[j])

\* C2 witness: the single worker has emitted two elements of the single producer
C2_Witness ==
    /\ tp_count = 1 /\ tp_nProd = 1
    /\ Len(tp_outq) >= 2

\* C6: once stop() has been called on a started pool, every worker unit
\* eventually terminates (so the join in wait() returns).
C6_StopTerminatesWorkers ==
    (tp_started /\ tp_stopped) ~> TP_AllWorkersDone

\* C9: an interrupt() call leaves no thread blocked in the stage's input().
C9_InterruptWakesInput ==
    [][TP_interrupt => (tp_meCondOut' = {})]_vars

(***************************************************************************)
(*                  BaseMediaProcessCachePipe  (cp_)                       *)
(***************************************************************************)
\* what does not depend on the construction parameters
CP_InitRest ==
    /\ cp_running = FALSE
    /\ cp_stopGraceful = TRUE
    /\ cp_cache = {}
    /\ cp_mutex = FALSE
    /\ cp_enterLow = {}
    /\ cp_dpc = "none"
    /\ cp_me = Null
    /\ cp_it = {}
    /\ cp_joinable = FALSE
    /\ cp_ppc = [p \in Producers |-> "idle"]
    /\ cp_parg = [p \in Producers |-> Null]
    /\ cp_cpc = "idle"
    /\ cp_used = {}
    /\ cp_ins = {}
    /\ cp_outq = <<>>
    /\ cp_started = FALSE
    /\ cp_stopped = "no"

\* lines 541-543: the constructor, with lowLevel <= highLevel
CP_Init ==
    /\ cp_highLevel \in 0..MaxHigh
    /\ cp_lowLevel \in 0..cp_highLevel
    /\ cp_hasOut0 \in BOOLEAN
    /\ cp_overrides \in BOOLEAN
    /\ CP_InitRest

\* the stage is not used at all (specifications of the other stages)
CP_Idle ==
    /\ cp_highLevel = 0
    /\ cp_lowLevel = 0
    /\ cp_hasOut0 = FALSE
    /\ cp_overrides = FALSE
    /\ CP_InitRest

\* outputHandlers_[0](e), guarded by outputHandlers_.find(0) != end()
CP_Emit(e) == IF cp_hasOut0 THEN Append(cp_outq, e) ELSE cp_outq

(* ------------------------------ input() ------------------------------- *)
\* lines 558-560: dealHighLevel() returns false unless a subclass overrides it
CP_dealHighLevel == IF cp_overrides THEN BOOLEAN ELSE {FALSE}

\* a buffer that admits an element at the high watermark itself
CP_BelowHigh_Inclusive(size) == size <= cp_highLevel

\* lines 565, 573: cache_.size() < highLevel_, the negation of the test of the
\* inner loop and the second half of the guard of cache_.insert
CP_BelowHigh(size) == size < cp_highLevel

\* line 565: the buffer is full
CP_Full == ~CP_BelowHigh(Cardinality(cp_cache))

\* line 573: the guard of cache_.insert
CP_CanInsert == cp_running /\ CP_BelowHigh(Cardinality(cp_cache))

\* a producer thread calls input(0, e) with a fresh element e (of any address)
CP_input_call(p) ==
    /\ cp_ppc[p] = "idle"
    /\ Cardinality(cp_used) < MaxElems
    /\ \E e \in Elems \ cp_used :
          /\ cp_parg' = [cp_parg EXCEPT ![p] = e]
          /\ cp_used' = cp_used \cup {e}
    /\ cp_ppc' = [cp_ppc EXCEPT ![p] = "locked"]
    /\ UNCHANGED <<cp_lowLevel, cp_highLevel, cp_running, cp_stopGraceful, cp_cache,
                   cp_mutex, cp_enterLow, cp_hasOut0, cp_overrides, cp_dpc, cp_me, cp_it,
                   cp_joinable, cp_cpc, cp_ins, cp_outq, cp_started, cp_stopped>>
    /\ CP_Others

\* the call returns
CP_input_return(p) ==
    /\ cp_ppc' = [cp_ppc EXCEPT ![p] = "idle"]
    /\ cp_parg' = [cp_parg EXCEPT ![p] = Null]

\* lines 563-582 with mutex_ held: from taking the lock (or leaving
\* enterLowCond_.wait) to the return or the next enterLowCond_.wait
CP_input_body(p) ==
    /\ cp_ppc[p] = "locked" \/ (cp_ppc[p] = "waitLow" /\ p \notin cp_enterLow)
    /\ ~cp_mutex
    /\ IF cp_ppc[p] = "locked" /\ ~cp_running
         THEN \* while (running_) fails on entry
              /\ CP_input_return(p)
              /\ UNCHANGED <<cp_cache, cp_enterLow, cp_ins>>
         ELSE IF CP_Full
         THEN \* the inner loop: the hook, then enterLowCond_.wait(lock)
              \E drop \in CP_dealHighLevel :
                 IF drop
                   THEN /\ CP_input_return(p)
                        /\ UNCHANGED <<cp_cache, cp_enterLow, cp_ins>>
                   ELSE /\ cp_ppc' = [cp_ppc EXCEPT ![p] = "waitLow"]
                        /\ cp_enterLow' = cp_enterLow \cup {p}
                        /\ UNCHANGED <<cp_cache, cp_parg, cp_ins>>
         ELSE IF CP_CanInsert
         THEN \* cache_.insert(mediaElement); firstCond_.notify_one(); return
              /\ cp_cache' = cp_cache \cup {cp_parg[p]}
              /\ cp_ins' = cp_ins \cup {cp_parg[p]}
              /\ CP_input_return(p)
              /\ UNCHANGED cp_enterLow
         ELSE \* not running: while (running_) fails
              /\ CP_input_return(p)
              /\ UNCHANGED <<cp_cache, cp_enterLow, cp_ins>>
    /\ UNCHANGED <<cp_lowLevel, cp_highLevel, cp_running, cp_stopGraceful, cp_mutex,
                   cp_hasOut0, cp_overrides, cp_dpc, cp_me, cp_it, cp_joinable, cp_cpc,
                   cp_used, cp_outq, cp_started, cp_stopped>>
    /\ CP_Others

\* a spurious wake-up of enterLowCond_.wait
CP_input_spurious(p) ==
    /\ p \in cp_enterLow
    /\ cp_enterLow' = cp_enterLow \ {p}
    /\ UNCHANGED <<cp_lowLevel, cp_highLevel, cp_running, cp_stopGraceful, cp_cache,
                   cp_mutex, cp_hasOut0, cp_overrides, cp_dpc, cp_me, cp_it, cp_joinable,
                   cp_ppc, cp_parg, cp_cpc, cp_used, cp_ins, cp_outq, cp_started,
                   cp_stopped>>
    /\ CP_Others

(* ------------------------------- run_() ------------------------------- *)
\* line 628: the drain unit notifies a blocked producer after this removal
CP_AtLowLevel(size) == size = cp_lowLevel

\* line 629: enterLowCond_.notify_one()
CP_NotifyLow == NotifyOne(cp_enterLow)

\* line 617: while (running_), read without the mutex; me = nullptr
CP_run_loop ==
    /\ cp_dpc = "loop"
    /\ cp_dpc' = IF cp_running THEN "pick" ELSE "final"
    /\ cp_me' = Null
    /\ UNCHANGED <<cp_lowLevel, cp_highLevel, cp_running, cp_stopGraceful, cp_cache,
                   cp_mutex, cp_enterLow, cp_hasOut0, cp_overrides, cp_it, cp_joinable,
                   cp_ppc, cp_parg, cp_cpc, cp_used, cp_ins, cp_outq, cp_started,
                   cp_stopped>>
    /\ CP_Others

\* lines 622-636 with mutex_ held: remove *cache_.begin(), or wait on firstCond_
CP_run_pick ==
    /\ cp_dpc = "pick"
    /\ ~cp_mutex
    /\ IF cp_cache # {}
         THEN /\ cp_me' = SetMin(cp_cache)
              /\ cp_cache' = cp_cache \ {SetMin(cp_cache)}
              /\ IF CP_AtLowLevel(Cardinality(cp_cache) - 1)
                   THEN cp_enterLow' \in CP_NotifyLow
                   ELSE UNCHANGED cp_enterLow
              /\ cp_dpc' = "out"
         ELSE /\ cp_dpc' = "waitFirst"
              /\ UNCHANGED <<cp_me, cp_cache, cp_enterLow>>
    /\ UNCHANGED <<cp_lowLevel, cp_highLevel, cp_running, cp_stopGraceful, cp_mutex,
                   cp_hasOut0, cp_overrides, cp_it, cp_joinable, cp_ppc, cp_parg, cp_cpc,
                   cp_used, cp_ins, cp_outq, cp_started, cp_stopped>>
    /\ CP_Others

\* line 634: firstCond_.wait_for returns (notified, woken or after the second has
\* passed) with mutex_ re-locked, and the block ends
CP_run_waited ==
    /\ cp_dpc = "waitFirst"
    /\ ~cp_mutex
    /\ cp_dpc' = "out"
    /\ UNCHANGED <<cp_lowLevel, cp_highLevel, cp_running, cp_stopGraceful, cp_cache,
                   cp_mutex, cp_enterLow, cp_hasOut0, cp_overrides, cp_me, cp_it,
                   cp_joinable, cp_ppc, cp_parg, cp_cpc, cp_used, cp_ins, cp_outq,
                   cp_started, cp_stopped>>
    /\ CP_Others

\* lines 638-642: if (me) the output handler is called, without the mutex
CP_run_out ==
    /\ cp_dpc = "out"
    /\ cp_outq' = IF cp_me # Null THEN CP_Emit(cp_me) ELSE cp_outq
    /\ cp_dpc' = "loop"
    /\ UNCHANGED <<cp_lowLevel, cp_highLevel, cp_running, cp_stopGraceful, cp_cache,
                   cp_mutex, cp_enterLow, cp_hasOut0, cp_overrides, cp_me, cp_it,
                   cp_joinable, cp_ppc, cp_parg, cp_cpc, cp_used, cp_ins, cp_started,
                   cp_stopped>>
    /\ CP_Others

\* a final pass that visits nothing
CP_FinalPassElements_None == {}

\* lines 648-649: the elements the final pass visits
CP_FinalPassElements == IF cp_hasOut0 THEN cp_cache ELSE {}

\* lines 645-647: if (stopGraceful_) lock mutex_ for the final pass; otherwise
\* line 656: running_ = false and the unit terminates
CP_run_final ==
    /\ cp_dpc = "final"
    /\ IF cp_stopGraceful
         THEN /\ ~cp_mutex
              /\ cp_mutex' = TRUE
              /\ cp_it' = CP_FinalPassElements
              /\ cp_dpc' = "finalPass"
              /\ UNCHANGED cp_running
         ELSE /\ cp_running' = FALSE
              /\ cp_dpc' = "done"
              /\ UNCHANGED <<cp_mutex, cp_it>>
    /\ UNCHANGED <<cp_lowLevel, cp_highLevel, cp_stopGraceful, cp_cache, cp_enterLow,
                   cp_hasOut0, cp_overrides, cp_me, cp_joinable, cp_ppc, cp_parg, cp_cpc,
                   cp_used, cp_ins, cp_outq, cp_started, cp_stopped>>
    /\ CP_Others

\* lines 649-651: the final pass hands the next buffered element to the handler,
\* mutex_ held
CP_run_finalEmit ==
    /\ cp_dpc = "finalPass"
    /\ cp_it # {}
    /\ cp_outq' = CP_Emit(SetMin(cp_it))
    /\ cp_it' = cp_it \ {SetMin(cp_it)}
    /\ UNCHANGED <<cp_lowLevel, cp_highLevel, cp_running, cp_stopGraceful, cp_cache,
                   cp_mutex, cp_enterLow, cp_hasOut0, cp_overrides, cp_dpc, cp_me,
                   cp_joinable, cp_ppc, cp_parg, cp_cpc, cp_used, cp_ins, cp_started,
                   cp_stopped>>
    /\ CP_Others

\* lines 653-657: cache_.clear(); mutex_ released; running_ = false; the unit ends
CP_run_finalClear ==
    /\ cp_dpc = "finalPass"
    /\ cp_it = {}
    /\ cp_cache' = {}
    /\ cp_mutex' = FALSE
    /\ cp_running' = FALSE
    /\ cp_dpc' = "done"
    /\ UNCHANGED <<cp_lowLevel, cp_highLevel, cp_stopGraceful, cp_enterLow, cp_hasOut0,
                   cp_overrides, cp_me, cp_it, cp_joinable, cp_ppc, cp_parg, cp_cpc,
                   cp_used, cp_ins, cp_outq, cp_started, cp_stopped>>
    /\ CP_Others

(* -------------------- start / stop / wait / reset --------------------- *)
\* the owner thread is between two calls ("intr": it last returned from interrupt())
CP_OwnerIdle == cp_cpc \in {"idle", "intr"}

\* lines 593-598: the body of stop(graceful); enterLowCond_ and firstCond_ are
\* notified
CP_stop_effect(graceful) ==
    /\ ~cp_mutex
    /\ cp_stopGraceful' = graceful
    /\ cp_running' = FALSE
    /\ cp_enterLow' = {}

\* stop(graceful) called by the owner
CP_stop(graceful) ==
    /\ CP_OwnerIdle
    /\ cp_cpc' = "idle"
    /\ CP_stop_effect(graceful)
    /\ cp_stopped' = IF cp_stopped = "no" /\ cp_running
                       THEN (IF graceful THEN "graceful" ELSE "abrupt")
                       ELSE IF cp_stopped = "graceful" /\ ~graceful THEN "abrupt"
                       ELSE cp_stopped
    /\ UNCHANGED <<cp_lowLevel, cp_highLevel, cp_cache, cp_mutex, cp_hasOut0,
                   cp_overrides, cp_dpc, cp_me, cp_it, cp_joinable, cp_ppc, cp_parg,
                   cp_used, cp_ins, cp_outq, cp_started>>
    /\ CP_Others

\* lines 601-605: wait() called by the owner
CP_wait ==
    /\ CP_OwnerIdle
    /\ cp_cpc' = "wait_join"
    /\ UNCHANGED <<cp_lowLevel, cp_highLevel, cp_running, cp_stopGraceful, cp_cache,
                   cp_mutex, cp_enterLow, cp_hasOut0, cp_overrides, cp_dpc, cp_me, cp_it,
                   cp_joinable, cp_ppc, cp_parg, cp_used, cp_ins, cp_outq, cp_started,
                   cp_stopped>>
    /\ CP_Others

\* lines 602-604: if (proc_.joinable()) proc_.join(): returns once the drain unit
\* has terminated
CP_join ==
    /\ cp_cpc \in {"wait_join", "reset_join"}
    /\ cp_joinable => cp_dpc = "done"
    /\ cp_joinable' = FALSE
    /\ cp_cpc' = IF cp_cpc = "wait_join" THEN "idle" ELSE "reset_clear"
    /\ UNCHANGED <<cp_lowLevel, cp_highLevel, cp_running, cp_stopGraceful, cp_cache,
                   cp_mutex, cp_enterLow, cp_hasOut0, cp_overrides, cp_dpc, cp_me, cp_it,
                   cp_ppc, cp_parg, cp_used, cp_ins, cp_outq, cp_started, cp_stopped>>
    /\ CP_Others

\* lines 584-585, 607-609: start() enters reset(), which calls stop(true), wait()
CP_start ==
    /\ CP_OwnerIdle
    /\ CP_stop_effect(TRUE)
    /\ cp_cpc' = "reset_join"
    /\ cp_started' = TRUE
    /\ UNCHANGED <<cp_lowLevel, cp_highLevel, cp_cache, cp_mutex, cp_hasOut0,
                   cp_overrides, cp_dpc, cp_me, cp_it, cp_joinable, cp_ppc, cp_parg,
                   cp_used, cp_ins, cp_outq, cp_stopped>>
    /\ CP_Others

\* lines 611-612: reset() clears cache_ under the mutex
CP_reset_clear ==
    /\ cp_cpc = "reset_clear"
    /\ ~cp_mutex
    /\ cp_cache' = {}
    /\ cp_cpc' = "start_spawn"
    /\ UNCHANGED <<cp_lowLevel, cp_highLevel, cp_running, cp_stopGraceful, cp_mutex,
                   cp_enterLow, cp_hasOut0, cp_overrides, cp_dpc, cp_me, cp_it,
                   cp_joinable, cp_ppc, cp_parg, cp_used, cp_ins, cp_outq, cp_started,
                   cp_stopped>>
    /\ CP_Others

\* lines 586-589: running_ = true; the drain unit is spawned and kept in proc_
CP_start_spawn ==
    /\ cp_cpc = "start_spawn"
    /\ ~cp_mutex
    /\ cp_running' = TRUE
    /\ cp_dpc' = "loop"
    /\ cp_me' = Null
    /\ cp_joinable' = TRUE
    /\ cp_stopped' = "no"
    /\ cp_ins' = {}
    /\ cp_outq' = <<>>
    /\ cp_cpc' = "idle"
    /\ UNCHANGED <<cp_lowLevel, cp_highLevel, cp_stopGraceful, cp_cache, cp_mutex,
                   cp_enterLow, cp_hasOut0, cp_overrides, cp_it, cp_ppc, cp_parg,
                   cp_used, cp_started>>
    /\ CP_Others

\* lines 86-94: interrupt(), inherited from BaseMediaProcess: the stage owns no
\* child (mps_ is empty), so the loop body never runs
CP_interrupt ==
    /\ CP_OwnerIdle
    /\ cp_cpc' = "intr"
    /\ UNCHANGED <<cp_lowLevel, cp_highLevel, cp_running, cp_stopGraceful, cp_cache,
                   cp_mutex, cp_enterLow, cp_hasOut0, cp_overrides, cp_dpc, cp_me, cp_it,
                   cp_joinable, cp_ppc, cp_parg, cp_used, cp_ins, cp_outq, cp_started,
                   cp_stopped>>
    /\ CP_Others

(* ---------------------------- scheduling ------------------------------ *)
\* lines 617-643: the loop of run_()
CP_DrainLoop ==
    \/ CP_run_loop
    \/ CP_run_pick
    \/ CP_run_waited
    \/ CP_run_out

CP_Drain ==
    \/ CP_DrainLoop
    \/ CP_run_final
    \/ CP_run_finalEmit
    \/ CP_run_finalClear

CP_OwnerStep ==
    \/ CP_join
    \/ CP_reset_clear
    \/ CP_start_spawn

\* the whole life cycle: the owner starts, stops, waits and interrupts at will
CP_Next ==
    \/ CP_start
    \/ \E g \in BOOLEAN : CP_stop(g)
    \/ CP_wait
    \/ CP_interrupt
    \/ CP_OwnerStep
    \/ \E p \in Producers : CP_input_call(p)
    \/ \E p \in Producers : CP_input_body(p)
    \/ \E p \in Producers : CP_input_spurious(p)
    \/ CP_Drain

\* started once and never stopped; input() is called on the started stage
CP_RunNext ==
    \/ (~cp_started /\ CP_start)
    \/ CP_OwnerStep
    \/ (cp_started /\ cp_cpc = "idle" /\ \E p \in Producers : CP_input_call(p))
    \/ \E p \in Producers : CP_input_body(p)
    \/ \E p \in Producers : CP_input_spurious(p)
    \/ CP_DrainLoop

(***************************************************************************)
(*   BaseMediaProcessRunloop wired as MPProductor -> MPShow  (rl_)         *)
(***************************************************************************)
\* part_000 line 40: size_t count_ = 10
InitialCount == 10

\* unit 0 is the thread that calls run() itself; the others are spawned by start()
Units == 0..MaxStarts

RL_InitRest ==
    /\ rl_running = FALSE
    /\ rl_proc = 0
    /\ rl_upc = [u \in Units |-> "none"]
    /\ rl_count = rl_count0
    /\ rl_sink = <<>>
    /\ rl_cpc = "idle"
    /\ rl_spawned = 0
    /\ rl_aborted = FALSE
    /\ rl_runs = 0
    /\ rl_stopCalled = FALSE
    /\ rl_stopRet = FALSE

\* a generator constructed to return true K = count0 - 1 times
RL_Init ==
    /\ rl_count0 \in 1..InitialCount
    /\ RL_InitRest

\* the runloop is not used at all (specifications of the other stages)
RL_Idle ==
    /\ rl_count0 = InitialCount
    /\ RL_InitRest

\* the thread that owns the runloop is between two calls
RL_OwnerIdle ==
    /\ ~rl_aborted
    /\ rl_cpc = "idle"
    /\ rl_upc[0] \in {"none", "done"}

(* ------------------------ MPProductor::generate ----------------------- *)
\* if (count_--) would test the value before the decrement
RL_Continues_PostDecrement(old, new) == old # 0

\* part_000 line 30: if (--count_) tests the decremented value
RL_Continues(old, new) == new # 0

(* -------------------------------- run() ------------------------------- *)
\* lines 343-346: running_ = true under the mutex
RL_run_begin(u) ==
    /\ ~rl_aborted
    /\ rl_upc[u] = "begin"
    /\ rl_running' = TRUE
    /\ rl_upc' = [rl_upc EXCEPT ![u] = "loop"]
    /\ UNCHANGED <<rl_proc, rl_count, rl_count0, rl_sink, rl_cpc, rl_spawned,
                   rl_aborted, rl_runs, rl_stopCalled, rl_stopRet>>
    /\ RL_Others

\* line 348: while (running_ && ...), running_ read without the mutex
RL_run_loop(u) ==
    /\ ~rl_aborted
    /\ rl_upc[u] = "loop"
    /\ rl_upc' = [rl_upc EXCEPT ![u] = IF rl_running THEN "generate" ELSE "exit"]
    /\ UNCHANGED <<rl_running, rl_proc, rl_count, rl_count0, rl_sink, rl_cpc,
                   rl_spawned, rl_aborted, rl_runs, rl_stopCalled, rl_stopRet>>
    /\ RL_Others

\* line 348, lines 78-80, part_000 lines 29-38 and 54-57: generate() decrements
\* count_ and, if it is not zero, hands an element carrying it to the sink
RL_run_generate(u) ==
    /\ ~rl_aborted
    /\ rl_upc[u] = "generate"
    /\ Len(rl_sink) < MaxSink
    /\ rl_count' = rl_count - 1
    /\ IF RL_Continues(rl_count, rl_count - 1)
         THEN /\ rl_sink' = Append(rl_sink, rl_count - 1)
              /\ rl_upc' = [rl_upc EXCEPT ![u] = "loop"]
         ELSE /\ rl_upc' = [rl_upc EXCEPT ![u] = "exit"]
              /\ UNCHANGED rl_sink
    /\ UNCHANGED <<rl_running, rl_proc, rl_count0, rl_cpc, rl_spawned, rl_aborted,
                   rl_runs, rl_stopCalled, rl_stopRet>>
    /\ RL_Others

\* lines 351-355: running_ = false under the mutex; run() returns
RL_run_end(u) ==
    /\ ~rl_aborted
    /\ rl_upc[u] = "exit"
    /\ rl_running' = FALSE
    /\ rl_upc' = [rl_upc EXCEPT ![u] = "done"]
    /\ UNCHANGED <<rl_proc, rl_count, rl_count0, rl_sink, rl_cpc, rl_spawned,
                   rl_aborted, rl_runs, rl_stopCalled, rl_stopRet>>
    /\ RL_Others

\* the owner calls run() itself (part_000 line 76)
RL_run_direct ==
    /\ RL_OwnerIdle
    /\ rl_upc' = [rl_upc EXCEPT ![0] = "begin"]
    /\ rl_runs' = rl_runs + 1
    /\ UNCHANGED <<rl_running, rl_proc, rl_count, rl_count0, rl_sink, rl_cpc,
                   rl_spawned, rl_aborted, rl_stopCalled, rl_stopRet>>
    /\ RL_Others

(* --------------------------- start / stop ----------------------------- *)
\* lines 358-364: under the mutex, if (!running_) a unit running run() is spawned
\* and swapped into proc_; the std::thread swapped out is destroyed, which calls
\* std::terminate if it is still joinable
RL_start ==
    /\ RL_OwnerIdle
    /\ rl_stopRet' = FALSE
    /\ IF ~rl_running
         THEN /\ rl_spawned < MaxStarts
              /\ rl_spawned' = rl_spawned + 1
              /\ rl_upc' = [rl_upc EXCEPT ![rl_spawned + 1] = "begin"]
              /\ rl_proc' = rl_spawned + 1
              /\ rl_aborted' = (rl_proc # 0)
              /\ rl_runs' = rl_runs + 1
         ELSE UNCHANGED <<rl_spawned, rl_upc, rl_proc, rl_aborted, rl_runs>>
    /\ UNCHANGED <<rl_running, rl_count, rl_count0, rl_sink, rl_cpc, rl_stopCalled>>
    /\ RL_Others

\* a stop() that never takes the early return
RL_NotRunning_Ignored == FALSE

\* line 369: if (!running_)
RL_NotRunning == ~rl_running

\* lines 367-374: under the mutex, return if (!running_), else running_ = false
RL_stop ==
    /\ RL_OwnerIdle
    /\ rl_stopCalled' = TRUE
    /\ IF RL_NotRunning
         THEN /\ rl_stopRet' = TRUE
              /\ UNCHANGED <<rl_running, rl_cpc>>
         ELSE /\ rl_running' = FALSE
              /\ rl_cpc' = "stop_interrupt"
              /\ UNCHANGED rl_stopRet
    /\ UNCHANGED <<rl_proc, rl_upc, rl_count, rl_count0, rl_sink, rl_spawned,
                   rl_aborted, rl_runs>>
    /\ RL_Others

\* line 376, lines 86-94: interrupt() calls interrupt() on the children, last
\* first; MPShow and MPProductor own no child, so nothing changes
RL_stop_interrupt ==
    /\ ~rl_aborted
    /\ rl_cpc = "stop_interrupt"
    /\ rl_cpc' = "stop_join"
    /\ UNCHANGED <<rl_running, rl_proc, rl_upc, rl_count, rl_count0, rl_sink,
                   rl_spawned, rl_aborted, rl_runs, rl_stopCalled, rl_stopRet>>
    /\ RL_Others

\* lines 377-380: if (proc_.joinable()) proc_.join(); stop() returns
RL_stop_join ==
    /\ ~rl_aborted
    /\ rl_cpc = "stop_join"
    /\ rl_proc # 0 => rl_upc[rl_proc] = "done"
    /\ rl_proc' = 0
    /\ rl_cpc' = "idle"
    /\ rl_stopRet' = TRUE
    /\ UNCHANGED <<rl_running, rl_upc, rl_count, rl_count0, rl_sink, rl_spawned,
                   rl_aborted, rl_runs, rl_stopCalled>>
    /\ RL_Others

\* lines 328-386: the class declares no destructor, so destroying the runloop
\* only destroys its members; ~std::thread on a joinable proc_ calls
\* std::terminate
RL_destroy ==
    /\ RL_OwnerIdle
    /\ rl_cpc' = "destroyed"
    /\ rl_aborted' = (rl_proc # 0)
    /\ UNCHANGED <<rl_running, rl_proc, rl_upc, rl_count, rl_count0, rl_sink,
                   rl_spawned, rl_runs, rl_stopCalled, rl_stopRet>>
    /\ RL_Others

(* ---------------------------- scheduling ------------------------------ *)
RL_Unit(u) ==
    \/ RL_run_begin(u)
    \/ RL_run_loop(u)
    \/ RL_run_generate(u)
    \/ RL_run_end(u)

RL_OwnerStep ==
    \/ RL_stop_interrupt
    \/ RL_stop_join

RL_Next ==
    \/ RL_run_direct
    \/ RL_start
    \/ RL_stop
    \/ RL_OwnerStep
    \/ \E u \in Units : RL_Unit(u)

\* the owner only calls start() and stop(); run() is never called directly
RL_StartStopNext ==
    \/ RL_start
    \/ RL_stop
    \/ RL_OwnerStep
    \/ \E u \in Units \ {0} : RL_Unit(u)

\* the life cycle up to and including the destruction of the runloop
RL_TeardownNext ==
    \/ RL_Next
    \/ RL_destroy

\* a worker-pool pipe started once and stopped only with stop(true)
TP_GracefulNext ==
    \/ (~tp_started /\ TP_start)
    \/ TP_stop(TRUE)
    \/ TP_wait
    \/ TP_OwnerStep
    \/ (tp_started /\ \E p \in Producers : TP_input_call(p))
    \/ \E p \in Producers : TP_input_body(p)
    \/ \E w \in Workers : TP_Worker(w)
    \/ TP_Spurious

(***************************************************************************)
(*        BaseMediaProcess: a composite wired from levels  (co_)           *)
(***************************************************************************)
\* the levels one constructor call can be given
LevelShapes == UNION {[1..w -> StageShapes] : w \in Widths}

\* the argument lists that name at most n child stages
RECURSIVE Composites(_)
Composites(n) ==
    {<<>>} \cup
    UNION {{<<l>> \o c : c \in Composites(n - Len(l))} :
              l \in {x \in LevelShapes : Len(x) <= n}}

\* the output indices a composite of at most MaxStages stages can have
CO_OutIndexes == 0..(2 * MaxStages - 1)

CO_InitRest ==
    /\ co_level = 0
    /\ co_mps = <<>>
    /\ co_mpsPrev = <<>>
    /\ co_prevOutputCount = 0
    /\ co_inputCount = 0
    /\ co_outputCount = 0
    /\ co_inputHandlers = <<>>
    /\ co_childOut = <<>>
    /\ co_generator = FALSE
    /\ co_outputHandlers = [j \in CO_OutIndexes |-> Null]
    /\ co_last = [op |-> "none"]
    /\ co_intrLog = <<>>

\* lines 52-55: the constructor is entered with distinct child stages, none of
\* them wired yet
CO_Init ==
    /\ co_levels \in Composites(MaxStages) \ {<<>>}
    /\ co_single0 \in {b \in BOOLEAN : b => Len(co_levels[1]) = 1}
    /\ co_pc = "init"
    /\ CO_InitRest

\* no composite is built at all (specifications of the other stages)
CO_Idle ==
    /\ co_levels = <<>>
    /\ co_single0 = FALSE
    /\ co_pc = "unused"
    /\ CO_InitRest

\* mp->getInputCount() and mp->getOutputCount() of child mp
CO_getInputCount(mp) == co_levels[mp[1] + 1][mp[2]][1]
CO_getOutputCount(mp) == co_levels[mp[1] + 1][mp[2]][2]

\* the vector mps of level k
CO_LevelStages(k) == [i \in 1..Len(co_levels[k + 1]) |-> <<k, i>>]

\* lines 117-129, 133-143: for (auto mp : mps) for (i < mp->getInputCount()): the
\* handlers [mpPtr, i] in the order the loops create them
RECURSIVE CO_InputPorts(_)
CO_InputPorts(mps) ==
    IF mps = <<>> THEN <<>>
    ELSE [i \in 1..CO_getInputCount(Head(mps)) |-> <<Head(mps), i - 1>>]
         \o CO_InputPorts(Tail(mps))

\* lines 150-156, 173-184: for (auto mp : mpsPrev_) for (i < mp->getOutputCount()):
\* the output ports in the order the loops visit them
RECURSIVE CO_OutputPorts(_)
CO_OutputPorts(mps) ==
    IF mps = <<>> THEN <<>>
    ELSE [i \in 1..CO_getOutputCount(Head(mps)) |-> <<Head(mps), i - 1>>]
         \o CO_OutputPorts(Tail(mps))

\* lines 161-165: prevOutputCount_ = 0; prevOutputCount_ += mp->getOutputCount()
RECURSIVE CO_PrevOutputCount(_)
CO_PrevOutputCount(mps) ==
    IF mps = <<>> THEN 0
    ELSE CO_getOutputCount(Head(mps)) + CO_PrevOutputCount(Tail(mps))

\* a last step that counts one output per stage
CO_CountedOutputs_OnePerStage(count) == 1

\* line 175: outputCount_ += count
CO_CountedOutputs(count) == count

\* lines 173-175: the value added to outputCount_ over mpsPrev_
RECURSIVE CO_OutputCount(_)
CO_OutputCount(mps) ==
    IF mps = <<>> THEN 0
    ELSE CO_CountedOutputs(CO_getOutputCount(Head(mps))) + CO_OutputCount(Tail(mps))

\* a wiring that hands out the handlers last first
CO_FuncAt_Mirrored(funcs, j) == funcs[Len(funcs) - j]

\* line 153: funcs[j]
CO_FuncAt(funcs, j) == funcs[j + 1]

\* mp->setOutputHandler(i, handlers[j]) for the j-th listed port (j from 0): the
\* new handler replaces the one the port had
CO_SetOutputHandlers(ports, handlers) ==
    [q \in DOMAIN co_childOut \cup {ports[j] : j \in 1..Len(ports)} |->
        IF \E j \in 1..Len(ports) : ports[j] = q
          THEN handlers[CHOOSE j \in 1..Len(ports) : ports[j] = q]
          ELSE co_childOut[q]]

\* line 145: funcs.size() != prevOutputCount_
CO_Mismatch(funcs) == Len(funcs) # co_prevOutputCount

\* lines 98-167: init(level, mps, args...) up to its recursive call, or up to
\* the throw of line 146
CO_init_level ==
    /\ co_pc = "init"
    /\ co_level < Len(co_levels)
    /\ LET mps == CO_LevelStages(co_level)
           funcs == CO_InputPorts(mps)
           ports == CO_OutputPorts(co_mpsPrev)
           wired == CO_SetOutputHandlers(ports,
                       [j \in 1..Len(ports) |-> <<"in", CO_FuncAt(funcs, j - 1)>>])
       IN  /\ co_mps' = co_mps \o mps
           /\ IF co_level = 0
                THEN /\ co_generator' = (co_single0 /\ CO_getInputCount(mps[1]) = 0)
                     /\ co_inputHandlers' = co_inputHandlers \o funcs
                     /\ co_inputCount' = co_inputCount + Len(funcs)
                     /\ UNCHANGED co_childOut
                ELSE /\ co_childOut' = IF CO_Mismatch(funcs) THEN co_childOut ELSE wired
                     /\ UNCHANGED <<co_generator, co_inputHandlers, co_inputCount>>
           /\ IF co_level > 0 /\ CO_Mismatch(funcs)
                THEN /\ co_pc' = "failed"
                     /\ UNCHANGED <<co_mpsPrev, co_prevOutputCount, co_level>>
                ELSE /\ co_mpsPrev' = mps
                     /\ co_prevOutputCount' = CO_PrevOutputCount(mps)
                     /\ co_level' = co_level + 1
                     /\ UNCHANGED co_pc
    /\ UNCHANGED <<co_levels, co_single0, co_outputCount, co_outputHandlers, co_last,
                   co_intrLog>>
    /\ CO_Others

\* lines 169-185: init(level) after the last level: the outputs of the last
\* level become the outputs of the composite
CO_init_last ==
    /\ co_pc = "init"
    /\ co_level = Len(co_levels)
    /\ co_outputCount' = co_outputCount + CO_OutputCount(co_mpsPrev)
    /\ co_childOut' = CO_SetOutputHandlers(CO_OutputPorts(co_mpsPrev),
                          [j \in 1..Len(CO_OutputPorts(co_mpsPrev)) |-> <<"out", j - 1>>])
    /\ co_pc' = "built"
    /\ UNCHANGED <<co_levels, co_single0, co_level, co_mps, co_mpsPrev,
                   co_prevOutputCount, co_inputCount, co_inputHandlers, co_generator,
                   co_outputHandlers, co_last, co_intrLog>>
    /\ CO_Others

\* lines 69-71: input(index, me) on the composite calls inputHandlers_[index]
CO_input(index) ==
    /\ co_pc = "built"
    /\ index < co_inputCount
    /\ co_last' = [op |-> "input", index |-> index,
                    to |-> <<"in", co_inputHandlers[index + 1]>>]
    /\ UNCHANGED <<co_levels, co_single0, co_pc, co_level, co_mps, co_mpsPrev,
                   co_prevOutputCount, co_inputCount, co_outputCount, co_inputHandlers,
                   co_childOut, co_generator, co_outputHandlers, co_intrLog>>
    /\ CO_Others

\* lines 73-76: setOutputHandler(index, outputHandler) on the composite
\* (outputHandlers_ is a map and takes any index; an index no port of the last
\* level maps to is never looked up, so only the indexes below outputCount_ are drawn)
CO_setOutputHandler(index, h) ==
    /\ co_pc = "built"
    /\ index < co_outputCount
    /\ co_outputHandlers' = [co_outputHandlers EXCEPT ![index] = h]
    /\ co_last' = [op |-> "setOutputHandler"]
    /\ UNCHANGED <<co_levels, co_single0, co_pc, co_level, co_mps, co_mpsPrev,
                   co_prevOutputCount, co_inputCount, co_outputCount, co_inputHandlers,
                   co_childOut, co_generator, co_intrLog>>
    /\ CO_Others

\* a forwarder that only knows the handlers registered when it was created
CO_Registered_AtConstruction(j) == FALSE

\* line 178: this->outputHandlers_.find(j) != this->outputHandlers_.end()
CO_Registered(j) == co_outputHandlers[j] # Null

\* the handler the target of a child's output port reaches beyond the composite:
\* lines 177-181 for a port of the last level, none for an inner port
CO_Forwarded(to) ==
    IF to[1] = "out" /\ CO_Registered(to[2]) THEN co_outputHandlers[to[2]] ELSE Null

\* child mp calls the handler set on its output port i (lines 139-141, 177-181)
CO_emit(mp, i) ==
    /\ co_pc = "built"
    /\ <<mp, i>> \in DOMAIN co_childOut
    /\ co_last' = [op |-> "emit", mp |-> mp, i |-> i, to |-> co_childOut[<<mp, i>>],
                    ext |-> CO_Forwarded(co_childOut[<<mp, i>>])]
    /\ UNCHANGED <<co_levels, co_single0, co_pc, co_level, co_mps, co_mpsPrev,
                   co_prevOutputCount, co_inputCount, co_outputCount, co_inputHandlers,
                   co_childOut, co_generator, co_outputHandlers, co_intrLog>>
    /\ CO_Others

\* an interrupt() that walks mps_ from its first element
CO_InterruptOrder_Forward(mps) == mps

\* lines 87-93: from mps_.rbegin() to mps_.rend()
CO_InterruptOrder(mps) == [n \in 1..Len(mps) |-> mps[Len(mps) + 1 - n]]

\* lines 86-94: interrupt() on the composite; the children own no child
CO_interrupt ==
    /\ co_pc = "built"
    /\ co_intrLog' = CO_InterruptOrder(co_mps)
    /\ co_last' = [op |-> "interrupt"]
    /\ UNCHANGED <<co_levels, co_single0, co_pc, co_level, co_mps, co_mpsPrev,
                   co_prevOutputCount, co_inputCount, co_outputCount, co_inputHandlers,
                   co_childOut, co_generator, co_outputHandlers>>
    /\ CO_Others

\* every child stage of the argument list
CO_Stages == {<<k, i>> : k \in 0..(MaxStages - 1), i \in Widths}
CO_Ports == 0..1

CO_Next ==
    \/ CO_init_level
    \/ CO_init_last
    \/ \E index \in 0..(2 * MaxStages) : CO_input(index)
    \/ \E mp \in CO_Stages, i \in CO_Ports : CO_emit(mp, i)
    \/ CO_interrupt

\* a composite whose caller registers external output handlers while the
\* children of the last level emit
CO_OutputNext ==
    \/ CO_init_level
    \/ CO_init_last
    \/ \E mp \in CO_Stages, i \in CO_Ports : mp[1] = Len(co_levels) - 1 /\ CO_emit(mp, i)
    \/ \E index \in CO_OutIndexes, h \in Handlers : CO_setOutputHandler(index, h)

(***************************************************************************)
(*                           Specifications                                *)
(***************************************************************************)
\* every thread that can take a step eventually takes one; a spurious wake-up
\* and a new call by the owner or a producer are never forced
TP_Fair ==
    /\ WF_vars(TP_OwnerStep)
    /\ \A p \in Producers : WF_vars(TP_input_body(p))
    /\ \A w \in Workers : WF_vars(TP_Worker(w))

CP_Fair ==
    /\ WF_vars(CP_OwnerStep)
    /\ \A p \in Producers : WF_vars(CP_input_body(p))
    /\ WF_vars(CP_Drain)

\* the constructor runs to its end
CO_Fair == WF_vars(CO_init_level \/ CO_init_last)

RL_Fair ==
    /\ WF_vars(RL_OwnerStep)
    /\ \A u \in Units : WF_vars(RL_Unit(u))

\* the initial states: one stage is constructed, the others stay unused
TPInit == TP_Init /\ CP_Idle /\ RL_Idle /\ CO_Idle
CPInit == CP_Init /\ TP_Idle /\ RL_Idle /\ CO_Idle
RLInit == RL_Init /\ TP_Idle /\ CP_Idle /\ CO_Idle
COInit == CO_Init /\ TP_Idle /\ CP_Idle /\ RL_Idle

\* a worker-pool pipe through its whole life cycle
TPSpec == TPInit /\ [][TP_Next]_vars /\ TP_Fair

\* a worker-pool pipe started once and never stopped
TPRunSpec == TPInit /\ [][TP_RunNext]_vars /\ TP_Fair

\* a worker-pool pipe started once and stopped gracefully
TPGracefulSpec == TPInit /\ [][TP_GracefulNext]_vars /\ TP_Fair

\* a watermark-buffered pipe through its whole life cycle
CPSpec == CPInit /\ [][CP_Next]_vars /\ CP_Fair

\* a watermark-buffered pipe started once and never stopped
CPRunSpec == CPInit /\ [][CP_RunNext]_vars /\ CP_Fair

\* a runloop through its whole life cycle
RLSpec == RLInit /\ [][RL_Next]_vars /\ RL_Fair

\* a runloop driven by start() and stop() calls alone
RLStartStopSpec == RLInit /\ [][RL_StartStopNext]_vars /\ RL_Fair

\* a runloop through its whole life cycle, destruction included
RLTeardownSpec == RLInit /\ [][RL_TeardownNext]_vars /\ RL_Fair

\* the construction of a composite and its use afterwards
COSpec == COInit /\ [][CO_Next]_vars /\ CO_Fair

\* the construction of a composite and the use of its outputs
COOutputSpec == COInit /\ [][CO_OutputNext]_vars /\ CO_Fair

(***************************************************************************)
(*             Properties of the watermark-buffered pipe                   *)
(***************************************************************************)
\* C3: the buffer never holds more than highLevel elements, and no input() step
\* grows the buffer from a size that was already >= highLevel.
C3_BufferBounded ==
    /\ [](Cardinality(cp_cache) <= cp_highLevel)
    /\ [][Cardinality(cp_cache') > Cardinality(cp_cache)
            => Cardinality(cp_cache) < cp_highLevel]_vars

\* C3 witness: the buffer is full and a producer is blocked in input()
C3_Witness ==
    /\ cp_highLevel >= 1
    /\ Cardinality(cp_cache) = cp_highLevel
    /\ cp_enterLow # {}

\* C4: running and never stopped, lowLevel <= highLevel, highLevel >= 1, default
\* hook: a producer blocked in input() while the buffer size is at or below
\* lowLevel eventually has its element inserted.
C4_BlockedProducerReleased ==
    \A p \in Producers :
        (/\ cp_highLevel >= 1 /\ ~cp_overrides
         /\ cp_ppc[p] = "waitLow"
         /\ Cardinality(cp_cache) <= cp_lowLevel)
        ~> (cp_ppc[p] # "waitLow")

\* C5: after a graceful stop() and the join of wait(), with a handler on port 0:
\* the buffer is empty and every element input() inserted during the run was
\* handed to the handler exactly once (and nothing else was).
C5_GracefulStopLosesNothing ==
    (/\ cp_hasOut0 /\ cp_stopped = "graceful"
     /\ cp_dpc = "done" /\ ~cp_joinable)
    => /\ cp_cache = {}
       /\ SeqToSet(cp_outq) = cp_ins
       /\ \A e \in cp_ins : Occurrences(cp_outq, e) = 1

\* C5 witness: a graceful stop() and wait() after every element was inserted
C5_Witness ==
    /\ cp_hasOut0 /\ cp_stopped = "graceful"
    /\ cp_dpc = "done" /\ ~cp_joinable
    /\ Cardinality(cp_ins) = MaxElems
    /\ Len(cp_outq) = MaxElems

\* C7: once stop() has been called on a running stage with highLevel >= 1, every
\* producer blocked in input() eventually returns and the drain unit eventually
\* terminates (unless the stage is started again first).
C7_StopReleasesEveryThread ==
    (cp_stopped # "no" /\ cp_highLevel >= 1)
    ~> (\/ /\ \A p \in Producers : cp_ppc[p] # "waitLow"
           /\ cp_dpc = "done"
        \/ cp_stopped = "no")

(***************************************************************************)
(*                     Properties of the runloop                           *)
(***************************************************************************)
\* the values a generator constructed with count c hands to the sink: c-1, ..., 1
RL_Expected(c) == [i \in 1..(c - 1) |-> c - i]

\* every execution unit that ran run() has left it
RL_AllUnitsDone == \A u \in Units : rl_upc[u] \in {"none", "done"}

\* C8: when stop() has returned after a start(), the run loop spawned by that
\* start() has exited (so no generate() call follows).
C8_StopWaitsForRunLoop ==
    (rl_stopRet /\ ~rl_aborted) => RL_AllUnitsDone

\* C10: one run() of a generator that returns true K = count0 - 1 times, never
\* stopped: the sink receives a prefix of K, K-1, ..., 1 at every moment, run()
\* eventually returns, and then the sink has received exactly those K values and
\* running_ is false.
C10_GeneratorDrivesSink ==
    /\ []((rl_runs = 1 /\ ~rl_stopCalled) =>
            /\ Len(rl_sink) <= rl_count0 - 1
            /\ rl_sink = SubSeq(RL_Expected(rl_count0), 1, Len(rl_sink))
            /\ RL_AllUnitsDone =>
                  (rl_sink = RL_Expected(rl_count0) /\ ~rl_running))
    /\ (rl_runs = 1) ~> (RL_AllUnitsDone \/ rl_stopCalled \/ rl_runs > 1)

\* C10 witness: the example of part_000 has run to completion: 9, 8, ..., 1
C10_Witness ==
    /\ rl_runs = 1 /\ ~rl_stopCalled /\ RL_AllUnitsDone
    /\ rl_count0 = InitialCount
    /\ rl_sink = <<9, 8, 7, 6, 5, 4, 3, 2, 1>>

\* C11: a stop() called while running_ is false returns at once: it does not
\* reach interrupt(), and it changes neither running_, proc_, the execution
\* units, the generator, the sink nor the error state, however often it is called.
C11_StopWhenNotRunningIsNoop ==
    [][(RL_stop /\ ~rl_running) =>
          /\ rl_cpc' = "idle"
          /\ rl_stopRet'
          /\ UNCHANGED <<rl_running, rl_proc, rl_upc, rl_count, rl_sink, rl_spawned,
                         rl_aborted>>]_vars

\* C11 witness: stop() has returned although proc_ is still joinable: the call
\* found running_ false and joined nothing
C11_Witness ==
    /\ rl_stopRet /\ ~rl_running /\ ~rl_aborted
    /\ rl_proc # 0
    /\ RL_AllUnitsDone

\* C14: when the destruction of a runloop completes, every execution unit it
\* spawned has exited and the process has not been terminated.
C14_TeardownJoinsEveryUnit ==
    (rl_cpc = "destroyed") => (~rl_aborted /\ RL_AllUnitsDone)

\* the workers that are inside an output-handler invocation
TP_InHandler == {w \in Workers : tp_wpc[w] \in {"emit", "finalEmit"}}

\* C15: stopped with stop(true) only, a handler on port 0: once the workers have
\* terminated, every element input() placed in the mailbox has been handed to
\* the handler exactly once.
C15_GracefulStopEmitsInFlight ==
    (tp_hasOut0 /\ tp_stopped /\ TP_AllWorkersDone) =>
        \A e \in SeqToSet(tp_inq) : Occurrences(tp_outq, e) = 1

\* C16: no step that invokes the port-0 handler of a watermark-buffered pipe (in
\* the drain loop or in the final pass) is taken while the drain unit holds
\* mutex_; the worker-pool pipe invokes its handler under postRunMutex_ alone.
C16_HandlerCalledWithoutMutex ==
    [][(cp_hasOut0 /\ ((CP_run_out /\ cp_me # Null) \/ CP_run_finalEmit))
          => ~cp_mutex]_vars

\* C17: at most one worker is inside an output-handler invocation, in the loop
\* or in the final emission.
C17_EmissionIsExclusive == Cardinality(TP_InHandler) <= 1

\* C17 witness: one worker is inside the handler while another one has gone
\* through process() with its own element and waits for postRunMutex_
C17_Witness ==
    \E v, w \in Workers :
        /\ v # w
        /\ tp_wpc[v] = "emit" /\ tp_wpc[w] = "postLock"
        /\ tp_currMe[v] # tp_currMe[w]

\* C18: input() writes the mailbox only when it is empty and running_ is true;
\* with running_ true and the mailbox occupied the caller waits on meCondOut_;
\* with running_ false the call returns and enqueues nothing.
C18_InputNeverOverwrites ==
    /\ [][(tp_me' # tp_me /\ tp_me' # Null) => (tp_me = Null /\ tp_running)]_vars
    /\ [][\A p \in Producers :
            (TP_input_body(p) /\ tp_running /\ tp_me # Null) =>
                (tp_ppc'[p] = "waitOut" /\ p \in tp_meCondOut' /\ UNCHANGED tp_me)]_vars
    /\ [][\A p \in Producers :
            (TP_input_body(p) /\ ~tp_running) =>
                (tp_ppc'[p] = "idle" /\ UNCHANGED <<tp_me, tp_inq>>)]_vars

\* C18 witness: a producer waits on meCondOut_ because the mailbox holds the
\* element of another input() call
C18_Witness ==
    /\ tp_running /\ tp_me # Null
    /\ \E p \in Producers : tp_ppc[p] = "waitOut" /\ p \in tp_meCondOut /\ tp_parg[p] # tp_me

\* the execution units that are inside run()
RL_UnitsInRun == {u \in Units : rl_upc[u] \notin {"none", "done"}}

\* C22: whatever start() and stop() calls are made, at most one execution unit
\* is inside run() and no std::thread of a spawned unit is given up while it is
\* still joinable (which would end the process in std::terminate).
C22_OneUnitNoneAbandoned ==
    /\ Cardinality(RL_UnitsInRun) <= 1
    /\ ~rl_aborted

(***************************************************************************)
(*                    Properties of the composite                          *)
(***************************************************************************)
\* f[1] + ... + f[n]
RECURSIVE SumTo(_, _)
SumTo(f, n) == IF n = 0 THEN 0 ELSE f[n] + SumTo(f, n - 1)

\* the input (c = 1) or output (c = 2) port counts of the stages of level k
CO_LevelCounts(k, c) == [x \in 1..Len(co_levels[k + 1]) |-> co_levels[k + 1][x][c]]

\* the total input (c = 1) or output (c = 2) port count of level k
CO_LevelTotal(k, c) == SumTo(CO_LevelCounts(k, c), Len(co_levels[k + 1]))

\* the index of port i of stage mp in its level, counting stages, then ports
CO_PortIndex(mp, i, c) == SumTo(CO_LevelCounts(mp[1], c), mp[2] - 1) + i

\* the construction rank of child mp: the stages of the earlier levels, then
\* its position in its own level
CO_Rank(mp) == SumTo([k \in 1..Len(co_levels) |-> Len(co_levels[k])], mp[1]) + mp[2]

\* the number of child stages
CO_StageCount == SumTo([k \in 1..Len(co_levels) |-> Len(co_levels[k])], Len(co_levels))

\* C12: a construction that failed on a level whose input total differs from the
\* output total of the level before has set no output handler on any child.
C12_FailedConstructionWiresNothing ==
    (co_pc = "failed") => (DOMAIN co_childOut = {})

\* C13: on a constructed composite getInputCount() is the input-port total of
\* level 0 and getOutputCount() the output-port total of the last level, and no
\* later operation changes either.
C13_PortCountsAreLevelTotals ==
    /\ [](co_pc = "built" =>
            /\ co_inputCount = CO_LevelTotal(0, 1)
            /\ co_outputCount = CO_LevelTotal(Len(co_levels) - 1, 2))
    /\ [][co_pc = "built" => UNCHANGED <<co_inputCount, co_outputCount>>]_vars

\* C13 witness: a composite with several ports on both sides, after it was used
C13_Witness ==
    /\ co_pc = "built"
    /\ co_inputCount >= 3 /\ co_outputCount >= 3
    /\ Len(co_levels) >= 2
    /\ co_last.op = "emit"

\* C19: on a constructed composite of distinct child stages, input(i) reaches
\* the port of level 0 whose stage-then-port index is i, and an element emitted
\* on the port of level k-1 whose stage-then-port index is j reaches the port of
\* level k whose stage-then-port index is j.
C19_RoutesByStageThenPort ==
    (co_pc = "built" /\ co_last.op \in {"input", "emit"}) =>
        IF co_last.op = "input"
          THEN /\ co_last.to[1] = "in"
               /\ co_last.to[2][1][1] = 0
               /\ co_last.to[2][2] < CO_getInputCount(co_last.to[2][1])
               /\ CO_PortIndex(co_last.to[2][1], co_last.to[2][2], 1) = co_last.index
          ELSE co_last.mp[1] < Len(co_levels) - 1 =>
               /\ co_last.to[1] = "in"
               /\ co_last.to[2][1][1] = co_last.mp[1] + 1
               /\ co_last.to[2][2] < CO_getInputCount(co_last.to[2][1])
               /\ CO_PortIndex(co_last.to[2][1], co_last.to[2][2], 1)
                    = CO_PortIndex(co_last.mp, co_last.i, 2)

\* C19 witness: the second port of the second stage of a level emitted into a
\* level that has two stages as well
C19_Witness ==
    /\ co_pc = "built" /\ co_last.op = "emit"
    /\ co_last.mp[2] = 2 /\ co_last.i = 1
    /\ co_last.to[1] = "in"
    /\ co_last.to[2][1][2] = 2

\* C20: interrupt() on a constructed composite calls interrupt() on every child
\* exactly once, the child constructed last first and the first child of level
\* 0 last.
C20_InterruptsInReverseOrder ==
    [][CO_interrupt =>
          /\ Len(co_intrLog') = CO_StageCount
          /\ \A n \in 1..Len(co_intrLog') :
                /\ co_intrLog'[n][1] \in 0..(Len(co_levels) - 1)
                /\ co_intrLog'[n][2] \in 1..Len(co_levels[co_intrLog'[n][1] + 1])
                /\ CO_Rank(co_intrLog'[n]) = CO_StageCount + 1 - n]_vars

\* C20 witness: interrupt() was called on a composite of several levels
C20_Witness ==
    /\ co_pc = "built"
    /\ Len(co_intrLog) = MaxStages
    /\ Len(co_levels) >= 2

\* C21: an emission on a port of the last level reaches the composite output
\* whose index is the stage-then-port index of that port; it is handed to the
\* external handler registered for that index at that moment, if there is one,
\* and is otherwise dropped; nothing else changes.
C21_LastLevelForwardsToRegistered ==
    [][\A mp \in CO_Stages, i \in CO_Ports :
          (CO_emit(mp, i) /\ mp[1] = Len(co_levels) - 1) =>
              /\ co_last'.to = <<"out", CO_PortIndex(mp, i, 2)>>
              /\ co_last'.ext = co_outputHandlers[CO_PortIndex(mp, i, 2)]
              /\ UNCHANGED <<co_levels, co_single0, co_pc, co_level, co_mps, co_mpsPrev,
                             co_prevOutputCount, co_inputCount, co_outputCount,
                             co_inputHandlers, co_childOut, co_generator,
                             co_outputHandlers, co_intrLog>>]_vars

\* C21 witness: the second output of the composite was emitted into the handler
\* registered for it after construction, while the first output has none
C21_Witness ==
    /\ co_pc = "built" /\ co_last.op = "emit"
    /\ co_last.to = <<"out", 1>>
    /\ co_last.ext = 1
    /\ co_outputHandlers[0] = Null

\* C21 second witness: an emission on an output without a handler was dropped
C21_DroppedWitness ==
    /\ co_pc = "built" /\ co_last.op = "emit"
    /\ co_last.to = <<"out", 1>>
    /\ co_last.ext = Null
    /\ co_outputHandlers[0] # Null

====
